---------------------------- MODULE Spec2Model ----------------------------
(***************************************************************************)
(* gulp-npmworkspace: the package dependency context (graph + registry),   *)
(* its ordered emission into a stream, the per-package uninstall step and  *)
(* the resolution of the workspace plugin options.                         *)
(*                                                                         *)
(* Three specifications share the variables below:                         *)
(*   Spec          collecting packages and writing them to a stream        *)
(*   PipelineSpec  the per-package uninstall step driven over a stream     *)
(*   OptionsSpec   getWorkspacePluginOptions and the plugin bindings       *)
(***************************************************************************)
EXTENDS Naturals, Sequences, FiniteSets

\* Package names of the workspace.
Names == {"a", "b", "c"}

\* JavaScript's undefined: an absent property, an absent argument.
Undefined == "undefined"

\* Largest number of addPackage / addPackageDependency calls on one context.
MaxOps == 5

\* Largest number of post-uninstall actions a binding is configured with.
MaxPostActions == 2

\* Largest number of properties in the options object a plugin is called with.
MaxLocalKeys == 2

\* Largest number of plugin bindings created.
MaxBindings == 2

\* A vinyl File of a package descriptor: the package it was read from and
\* which registration of that package it is (two File objects of the same
\* package are different objects).  transformed marks a File that went
\* through the caller's transformFunc.
File == [name : Names, rev : 1..MaxOps, transformed : BOOLEAN]

VARIABLES
    nodes,          \* _packageGraph.nodes: the node names in insertion order
    outgoingEdges,  \* _packageGraph.outgoingEdges: node -> its dependencies, in insertion order
    packageMap,     \* _packageMap: the names that have a File -> their File
    stream,         \* the Files pushed to targetStream, in order
    thrown,         \* the error the last operation threw, or "none"
    ops,            \* the number of addPackage / addPackageDependency calls made
    pc,             \* "collect" while packages are added, "written" after writeToStream
    cacheValue,     \* cache(): <<the command line options>> once read, <<>> before
    heap,           \* the options objects, by reference
    bindings,       \* the NpmPluginBinding objects created, each holding a reference to its options
    lastCall,       \* the last call made on the options: its kind, its local options
                    \* and the defaults object as it was before the call
    emitted,        \* the packages of the stream the uninstall plugin is piped
    input,          \* those of them not yet handed to the plugin
    processed,      \* the packages npmUninstallPackage was called for, in order
    calls,          \* the calls npmUninstallPackage made for the last of them
    raised,         \* the packages for which one of these calls threw
    failures,       \* the PluginErrors the run recorded, in order
    succeeded,      \* the packages whose step returned normally
    halted          \* the run was aborted

graphVars == <<nodes, outgoingEdges, packageMap, stream, thrown, ops, pc>>
optionVars == <<heap, bindings, lastCall>>
pipelineVars == <<emitted, input, processed, calls, raised, failures, succeeded, halted>>
vars == <<graphVars, cacheValue, optionVars, pipelineVars>>

Range(s) == {s[i] : i \in 1..Len(s)}

\* The errors of the dependency-graph library.
NodeDoesNotExist == "Node does not exist"
DependencyCycleFound == "Dependency Cycle Found"

-----------------------------------------------------------------------------
(* DepGraph of the "dependency-graph" library, as PackageDependencyContext *)
(* uses it.                                                                *)

hasNode(ns, name) == name \in Range(ns)

\* addNode: registers the name if absent, else nothing.
addNode(ns, name) == IF hasNode(ns, name) THEN ns ELSE Append(ns, name)

\* The distinct edges of the graph as (dependant, dependency) pairs.
Edges(edges) == {<<m, d>> \in Names \X Names : d \in Range(edges[m])}

\* incomingEdges[name] is non-empty: some node depends on name.
hasIncoming(edges, name) == \E m \in Names : name \in Range(edges[m])

\* createDFS(edges, leavesOnly = false, result): the closure's state is
\* [visited, currentPath, result, cycle]; cycle is set where the library
\* throws 'Dependency Cycle Found'.
RECURSIVE DFS(_, _, _)
RECURSIVE DFSEdges(_, _, _, _)
DFS(edges, name, st) ==
    LET entered == [st EXCEPT !.visited = @ \cup {name},
                              !.currentPath = Append(@, name)]
        walked  == DFSEdges(edges, name, 1, entered)
    IN  IF walked.cycle THEN walked
        ELSE LET left == [walked EXCEPT
                            !.currentPath = SubSeq(@, 1, Len(@) - 1)]
             IN  IF name \notin Range(left.result)
                 THEN [left EXCEPT !.result = Append(@, name)]
                 ELSE left

DFSEdges(edges, name, i, st) ==
    IF st.cycle \/ i > Len(edges[name]) THEN st
    ELSE LET edgeName == edges[name][i]
         IN  IF edgeName \notin st.visited
             THEN DFSEdges(edges, name, i + 1, DFS(edges, edgeName, st))
             ELSE IF edgeName \in Range(st.currentPath)
                  THEN [st EXCEPT !.currentPath = Append(@, edgeName),
                                  !.cycle = TRUE]
                  ELSE DFSEdges(edges, name, i + 1, st)

NewDFS == [visited |-> {}, currentPath |-> <<>>, result |-> <<>>, cycle |-> FALSE]

\* keys.forEach(DFS): one DFS closure run from each key in turn.
RECURSIVE DFSEach(_, _, _, _)
DFSEach(edges, keys, i, st) ==
    IF st.cycle \/ i > Len(keys) THEN st
    ELSE DFSEach(edges, keys, i + 1, DFS(edges, keys[i], st))

\* dependenciesOf(name): [error, value].
dependenciesOf(ns, edges, name) ==
    IF ~hasNode(ns, name) THEN [error |-> NodeDoesNotExist, value |-> <<>>]
    ELSE LET st == DFS(edges, name, NewDFS)
         IN  IF st.cycle THEN [error |-> DependencyCycleFound, value |-> <<>>]
             ELSE [error |-> "none",
                   value |-> SelectSeq(st.result, LAMBDA n : n # name)]

\* overallOrder(): [error, value].
overallOrder(ns, edges) ==
    IF Len(ns) = 0 THEN [error |-> "none", value |-> <<>>]
    ELSE LET CycleDFS == DFSEach(edges, ns, 1, NewDFS)
             starts   == SelectSeq(ns, LAMBDA n : ~hasIncoming(edges, n))
         IN  IF CycleDFS.cycle
             THEN [error |-> DependencyCycleFound, value |-> <<>>]
             ELSE [error |-> "none",
                   value |-> DFSEach(edges, starts, 1, NewDFS).result]

-----------------------------------------------------------------------------
(* The workspace plugin options (NpmWorkspacePluginOptions.ts).            *)

\* An options object is a function from the keys it has to their values.
\* The object { }.
EmptyObject == [k \in {} |-> Undefined]

\* obj[key] = value
setProperty(obj, key, value) ==
    [k \in DOMAIN obj \cup {key} |-> IF k = key THEN value ELSE obj[k]]

\* _.extend(obj, source): copies every property of source onto obj.
extend(obj, source) ==
    [k \in DOMAIN obj \cup DOMAIN source |->
        IF k \in DOMAIN source THEN source[k] ELSE obj[k]]

\* The values --package can take on the command line: a package token,
\* optionally behind the exclusive marker "!".
ArgvPackages == {"a", "b", "c", "!a", "!b", "!c", "!"}

\* /(\!?)(.+)/.exec(argv.package): [1] the exclusive marker, [2] the token.
\* "!" alone matches with an empty marker and the token "!".
RegexExec(s) ==
    CASE s = "!a" -> [marker |-> "!", token |-> "a"]
      [] s = "!b" -> [marker |-> "!", token |-> "b"]
      [] s = "!c" -> [marker |-> "!", token |-> "c"]
      [] OTHER    -> [marker |-> "", token |-> s]

\* What the file system holds at the token's path: nothing ("missing"), or
\* a directory whose nearest package.json names a package.
FileSystems == {"missing"} \cup Names

\* findPackageName(packageToken) on file system fs.
findPackageName(packageToken, fs) ==
    IF fs = "missing" THEN packageToken ELSE fs

\* The command lines: argv of yargs.
Argv == [package : {Undefined} \cup ArgvPackages, verbose : BOOLEAN,
         versionBump : {Undefined, "minor"}, disableExternals : BOOLEAN]

\* The function getCmdLineWorkspacePluginOptions caches.
cmdLineWorkspacePluginOptions(argv, fs) ==
    LET matches == RegexExec(argv.package)
        package == findPackageName(matches.token, fs)
        o1 == IF argv.package # Undefined
              THEN setProperty(setProperty(EmptyObject, "package", package),
                               "onlyNamedPackage", matches.marker = "!")
              ELSE EmptyObject
        o2 == IF argv.verbose THEN setProperty(o1, "verboseLogging", TRUE) ELSE o1
        o3 == IF argv.versionBump # Undefined
              THEN setProperty(o2, "versionBump", argv.versionBump) ELSE o2
    IN  IF argv.disableExternals
        THEN setProperty(o3, "disableExternalWorkspaces", TRUE) ELSE o3

\* cache(valueProviderFunc): the cached value if there is one, else the
\* provider's value.
getCmdLineWorkspacePluginOptions(cached, argv, fs) ==
    IF cached # <<>> THEN cached[1]
    ELSE cmdLineWorkspacePluginOptions(argv, fs)

\* getPackageName() of utilities/CommandLine: the name of the package the
\* command line focuses streaming on, or Undefined.
getPackageName(cmdLine) ==
    IF "package" \in DOMAIN cmdLine THEN cmdLine["package"] ELSE Undefined

\* The object DEFAULT_WORKSPACE_PLUGIN_OPTIONS as the module creates it.
DEFAULT_WORKSPACE_PLUGIN_OPTIONS ==
    [k \in {"enableLogging", "verboseLogging", "versionBump", "cwd",
            "disableExternalWorkspaces"} |->
        CASE k = "enableLogging" -> TRUE
          [] k = "verboseLogging" -> FALSE
          [] k = "versionBump" -> "patch"
          [] k = "cwd" -> "process.cwd()"
          [] OTHER -> FALSE]

\* The reference to that object.
DefaultsRef == "DEFAULT_WORKSPACE_PLUGIN_OPTIONS"

\* getWorkspacePluginOptions(localOptions): _.extend writes onto its first
\* argument, the defaults object, and returns it.  The operator gives the
\* heap after the call; the value returned is DefaultsRef.  A call
\* without localOptions is a call with EmptyObject (localOptions || { }).
getWorkspacePluginOptions(h, localOptions, cmdLine) ==
    [h EXCEPT ![DefaultsRef] = extend(extend(@, localOptions), cmdLine)]

-----------------------------------------------------------------------------
(* The uninstall plugin (Plugins/UninstallPackages.ts).                    *)

\* npmUninstallPackageBinding without the { continueOnError: true } source.
npmUninstallPackageBinding_NoDefault(h, options, cmdLine) ==
    LET got == getWorkspacePluginOptions(h, options, cmdLine)
    IN  [got EXCEPT ![DefaultsRef] = extend(@, options)]

\* npmUninstallPackageBinding(options): the heap after the call; the new
\* binding's options are the object getWorkspacePluginOptions returned.
npmUninstallPackageBinding(h, options, cmdLine) ==
    LET got == getWorkspacePluginOptions(h, options, cmdLine)
    IN  [got EXCEPT ![DefaultsRef] =
            extend(extend(@, setProperty(EmptyObject, "continueOnError", TRUE)),
                   options)]

\* pluginBinding.options
bindingOptions(h, binding) == h[binding.options]

\* A ConditionableAction<SyncAction>: an action and, optionally, a condition.
ConditionableAction == [hasCondition : BOOLEAN]

RECURSIVE SeqsUpTo(_, _)
SeqsUpTo(S, n) ==
    IF n = 0 THEN {<<>>}
    ELSE LET shorter == SeqsUpTo(S, n - 1)
         IN  shorter \cup {Append(q, x) : q \in shorter, x \in S}

PostActionLists == SeqsUpTo(ConditionableAction, MaxPostActions)

\* What the environment does when the step of one package calls it:
\* whether rimraf.sync succeeds, what the condition of the i-th post-action
\* returns (or that it throws), whether the i-th action succeeds.
Behaviours == [rimraf : BOOLEAN,
               condition : [1..MaxPostActions -> {"true", "false", "throw"}],
               action : [1..MaxPostActions -> BOOLEAN]]

Call(kind, index, result) == [kind |-> kind, index |-> index, result |-> result]

\* The forEach without the "if (runPostAction)" test: every action reached
\* is run, whatever its condition returned.
RECURSIVE forEachPostUninstallAction_IgnoreCondition(_, _, _, _)
forEachPostUninstallAction_IgnoreCondition(actions, i, behaviour, made) ==
    IF i > Len(actions) THEN [calls |-> made, threw |-> FALSE]
    ELSE LET conditionCall == Call("condition", i, behaviour.condition[i])
             evaluated == IF actions[i].hasCondition
                          THEN Append(made, conditionCall) ELSE made
             actionCall == Call("action", i,
                                IF behaviour.action[i] THEN "ok" ELSE "throw")
         IN  IF actions[i].hasCondition /\ behaviour.condition[i] = "throw"
             THEN [calls |-> evaluated, threw |-> TRUE]
             ELSE IF ~behaviour.action[i]
             THEN [calls |-> Append(evaluated, actionCall), threw |-> TRUE]
             ELSE forEachPostUninstallAction_IgnoreCondition(
                      actions, i + 1, behaviour, Append(evaluated, actionCall))

\* A loop over the post-actions that is left after the first of them that
\* is run.
RECURSIVE forEachPostUninstallAction_StopsAfterFirstRun(_, _, _, _)
forEachPostUninstallAction_StopsAfterFirstRun(actions, i, behaviour, made) ==
    IF i > Len(actions) THEN [calls |-> made, threw |-> FALSE]
    ELSE LET conditionCall == Call("condition", i, behaviour.condition[i])
             evaluated == IF actions[i].hasCondition
                          THEN Append(made, conditionCall) ELSE made
             runPostAction == IF actions[i].hasCondition
                              THEN behaviour.condition[i] = "true" ELSE TRUE
             actionCall == Call("action", i,
                                IF behaviour.action[i] THEN "ok" ELSE "throw")
         IN  IF actions[i].hasCondition /\ behaviour.condition[i] = "throw"
             THEN [calls |-> evaluated, threw |-> TRUE]
             ELSE IF ~runPostAction
             THEN forEachPostUninstallAction_StopsAfterFirstRun(
                      actions, i + 1, behaviour, evaluated)
             ELSE [calls |-> Append(evaluated, actionCall),
                   threw |-> ~behaviour.action[i]]

\* postUninstallActions.forEach(...), from the i-th action on: the calls
\* made and whether one of them threw, which ends the forEach.
RECURSIVE forEachPostUninstallAction(_, _, _, _)
forEachPostUninstallAction(actions, i, behaviour, made) ==
    IF i > Len(actions) THEN [calls |-> made, threw |-> FALSE]
    ELSE LET conditionCall == Call("condition", i, behaviour.condition[i])
             evaluated == IF actions[i].hasCondition
                          THEN Append(made, conditionCall) ELSE made
             runPostAction == IF actions[i].hasCondition
                              THEN behaviour.condition[i] = "true" ELSE TRUE
             actionCall == Call("action", i,
                                IF behaviour.action[i] THEN "ok" ELSE "throw")
         IN  IF actions[i].hasCondition /\ behaviour.condition[i] = "throw"
             THEN [calls |-> evaluated, threw |-> TRUE]
             ELSE IF ~runPostAction
             THEN forEachPostUninstallAction(actions, i + 1, behaviour, evaluated)
             ELSE IF ~behaviour.action[i]
             THEN [calls |-> Append(evaluated, actionCall), threw |-> TRUE]
             ELSE forEachPostUninstallAction(actions, i + 1, behaviour,
                                             Append(evaluated, actionCall))

\* A catch clause that always asks the run to halt.
PluginError_NeverContinue(options, packageName) ==
    [package |-> packageName, continue |-> FALSE]

\* A catch clause that always asks the run to go on.
PluginError_AlwaysContinue(options, packageName) ==
    [package |-> packageName, continue |-> TRUE]

\* The PluginError of the catch clause: the package it names and its
\* continue option.
PluginError(options, packageName) ==
    [package |-> packageName,
     continue |-> IF "continueOnError" \in DOMAIN options
                  THEN options["continueOnError"] ELSE FALSE]

\* npmUninstallPackage with the try block around rimraf.sync only: what a
\* post-action throws leaves the function as it is, an Error that names no
\* package and has no continue option.
npmUninstallPackage_PostActionsOutsideTry(options, packageName, behaviour) ==
    IF ~behaviour.rimraf
    THEN [calls |-> <<Call("rimraf.sync", 0, "throw")>>,
          error |-> <<PluginError(options, packageName)>>]
    ELSE IF "postUninstallActions" \notin DOMAIN options
    THEN [calls |-> <<Call("rimraf.sync", 0, "ok")>>, error |-> <<>>]
    ELSE LET ran == forEachPostUninstallAction(options["postUninstallActions"], 1,
                        behaviour, <<Call("rimraf.sync", 0, "ok")>>)
         IN  [calls |-> ran.calls,
              error |-> IF ran.threw
                        THEN <<[package |-> Undefined, continue |-> FALSE]>>
                        ELSE <<>>]

\* npmUninstallPackage with the post-actions after the try block's work
\* on the node_modules folder, whether or not that work threw.
npmUninstallPackage_PostActionsAfterFailure(options, packageName, behaviour) ==
    LET primary == <<Call("rimraf.sync", 0,
                          IF behaviour.rimraf THEN "ok" ELSE "throw")>>
    IN  IF "postUninstallActions" \notin DOMAIN options
        THEN [calls |-> primary,
              error |-> IF behaviour.rimraf THEN <<>>
                        ELSE <<PluginError(options, packageName)>>]
        ELSE LET ran == forEachPostUninstallAction(
                            options["postUninstallActions"], 1, behaviour, primary)
             IN  [calls |-> ran.calls,
                  error |-> IF ran.threw \/ ~behaviour.rimraf
                            THEN <<PluginError(options, packageName)>>
                            ELSE <<>>]

\* npmUninstallPackage(packageDescriptor, packagePath) on a binding with
\* these options: the calls it makes and the error it throws, <<>> when it
\* returns normally.
npmUninstallPackage(options, packageName, behaviour) ==
    IF ~behaviour.rimraf
    THEN [calls |-> <<Call("rimraf.sync", 0, "throw")>>,
          error |-> <<PluginError(options, packageName)>>]
    ELSE IF "postUninstallActions" \notin DOMAIN options
    THEN [calls |-> <<Call("rimraf.sync", 0, "ok")>>, error |-> <<>>]
    ELSE LET ran == forEachPostUninstallAction(options["postUninstallActions"], 1,
                        behaviour, <<Call("rimraf.sync", 0, "ok")>>)
         IN  [calls |-> ran.calls,
              error |-> IF ran.threw THEN <<PluginError(options, packageName)>>
                        ELSE <<>>]

\* packageDescriptorPlugin: the run hands the next package of the stream to
\* npmUninstallPackage on the binding.  A normal return is a success; a
\* PluginError is recorded, and the run goes on to the next package when
\* the error's continue option is true and is aborted when it is not.
ProcessPackage(behaviour) ==
    /\ ~halted
    /\ input # <<>>
    /\ LET packageName == Head(input)
           done == npmUninstallPackage(bindingOptions(heap, bindings[1]),
                                       packageName, behaviour)
       IN  /\ input' = Tail(input)
           /\ processed' = Append(processed, packageName)
           /\ calls' = done.calls
           /\ raised' = IF \E i \in 1..Len(done.calls) : done.calls[i].result = "throw"
                        THEN raised \cup {packageName} ELSE raised
           /\ failures' = failures \o done.error
           /\ succeeded' = IF done.error = <<>> THEN succeeded \cup {packageName}
                           ELSE succeeded
           /\ halted' = (done.error # <<>> /\ ~done.error[1].continue)
    /\ UNCHANGED <<graphVars, cacheValue, optionVars, emitted>>

-----------------------------------------------------------------------------
(* PackageDependencyContext.                                               *)

\* The File object of the next registration of a package.
NextFile(pm, name) ==
    [name |-> name, transformed |-> FALSE,
     rev |-> IF name \in DOMAIN pm THEN pm[name].rev + 1 ELSE 1]

\* transformFunc(file), when the caller gives one.
transformFunc(file) == [file EXCEPT !.transformed = TRUE]

\* collectFunc(packageName): the Files it pushes to targetStream.
collectFunc(pm, packageName, hasTransform) ==
    IF packageName \in DOMAIN pm
    THEN LET packageFile == pm[packageName]
         IN  <<IF hasTransform THEN transformFunc(packageFile) ELSE packageFile>>
    ELSE <<>>

\* forEach that ends at the first name without a File, as it would if
\* collectFunc lacked its "if (packageFile)" guard and failed there.
RECURSIVE forEachCollect_NoGuard(_, _, _)
forEachCollect_NoGuard(pm, names, hasTransform) ==
    IF names = <<>> \/ Head(names) \notin DOMAIN pm THEN <<>>
    ELSE collectFunc(pm, Head(names), hasTransform)
         \o forEachCollect_NoGuard(pm, Tail(names), hasTransform)

\* names.forEach(collectFunc, this)
RECURSIVE forEachCollect(_, _, _)
forEachCollect(pm, names, hasTransform) ==
    IF names = <<>> THEN <<>>
    ELSE collectFunc(pm, Head(names), hasTransform)
         \o forEachCollect(pm, Tail(names), hasTransform)

\* writeToStream that walks the nodes in registration order in the full
\* scope and skips dependenciesOf's cycle check in the closure scope.
writeToStream_Unordered(ns, edges, pm, requiredPackageName, hasTransform) ==
    IF requiredPackageName # Undefined
    THEN IF ~hasNode(ns, requiredPackageName)
         THEN [error |-> NodeDoesNotExist, pushed |-> <<>>]
         ELSE [error |-> "none",
               pushed |-> forEachCollect(pm,
                              SelectSeq(ns, LAMBDA n : n # requiredPackageName),
                              hasTransform)
                          \o collectFunc(pm, requiredPackageName, hasTransform)]
    ELSE [error |-> "none", pushed |-> forEachCollect(pm, ns, hasTransform)]

\* writeToStream without its line "collectFunc.call(this,
\* requiredPackageName)": the target is left to dependenciesOf, which does
\* not return it.
writeToStream_TargetNotAppended(ns, edges, pm, requiredPackageName, hasTransform) ==
    IF requiredPackageName # Undefined
    THEN LET deps == dependenciesOf(ns, edges, requiredPackageName)
         IN  IF deps.error # "none"
             THEN [error |-> deps.error, pushed |-> <<>>]
             ELSE [error |-> "none",
                   pushed |-> forEachCollect(pm, deps.value, hasTransform)]
    ELSE LET order == overallOrder(ns, edges)
         IN  IF order.error # "none"
             THEN [error |-> order.error, pushed |-> <<>>]
             ELSE [error |-> "none",
                   pushed |-> forEachCollect(pm, order.value, hasTransform)]

\* writeToStream that catches the graph's error and returns, having pushed
\* nothing.
writeToStream_SwallowsError(ns, edges, pm, requiredPackageName, hasTransform) ==
    IF requiredPackageName # Undefined
    THEN LET deps == dependenciesOf(ns, edges, requiredPackageName)
         IN  [error |-> "none",
              pushed |-> IF deps.error # "none" THEN <<>>
                         ELSE forEachCollect(pm, deps.value, hasTransform)
                              \o collectFunc(pm, requiredPackageName, hasTransform)]
    ELSE LET order == overallOrder(ns, edges)
         IN  [error |-> "none",
              pushed |-> IF order.error # "none" THEN <<>>
                         ELSE forEachCollect(pm, order.value, hasTransform)]

\* A topological order of the nodes in the set within that breaks ties by
\* registration: of the nodes all of whose dependencies are placed, the one
\* registered first is placed next.
RECURSIVE RegistrationOrder(_, _, _, _)
RegistrationOrder(ns, edges, within, placed) ==
    LET eligible == {i \in 1..Len(ns) :
                        /\ ns[i] \in within
                        /\ ns[i] \notin Range(placed)
                        /\ Range(edges[ns[i]]) \subseteq Range(placed)}
    IN  IF eligible = {} THEN placed
        ELSE LET first == CHOOSE i \in eligible : \A k \in eligible : i <= k
             IN  RegistrationOrder(ns, edges, within, Append(placed, ns[first]))

\* The nodes name depends on, directly or through other nodes.
RECURSIVE ReachableFrom(_, _, _)
ReachableFrom(edges, frontier, seen) ==
    LET next == UNION {Range(edges[n]) : n \in frontier} \ seen
    IN  IF next = {} THEN seen
        ELSE ReachableFrom(edges, next, seen \cup next)

\* writeToStream over a graph that orders its nodes by RegistrationOrder.
writeToStream_RegistrationTieBreak(ns, edges, pm, requiredPackageName, hasTransform) ==
    IF requiredPackageName # Undefined
    THEN LET deps == dependenciesOf(ns, edges, requiredPackageName)
             within == ReachableFrom(edges, {requiredPackageName}, {})
                           \ {requiredPackageName}
         IN  IF deps.error # "none"
             THEN [error |-> deps.error, pushed |-> <<>>]
             ELSE [error |-> "none",
                   pushed |-> forEachCollect(pm,
                                  RegistrationOrder(ns, edges, within, <<>>),
                                  hasTransform)
                              \o collectFunc(pm, requiredPackageName, hasTransform)]
    ELSE LET order == overallOrder(ns, edges)
         IN  IF order.error # "none"
             THEN [error |-> order.error, pushed |-> <<>>]
             ELSE [error |-> "none",
                   pushed |-> forEachCollect(pm,
                                  RegistrationOrder(ns, edges, Range(ns), <<>>),
                                  hasTransform)]

\* writeToStream that pushes as it goes and meets the graph's error only
\* afterwards: the File of the target, or the Files as registered, are out
\* when it throws.
writeToStream_PushesBeforeFailure(ns, edges, pm, requiredPackageName, hasTransform) ==
    IF requiredPackageName # Undefined
    THEN LET deps == dependenciesOf(ns, edges, requiredPackageName)
         IN  IF deps.error # "none"
             THEN [error |-> deps.error,
                   pushed |-> collectFunc(pm, requiredPackageName, hasTransform)]
             ELSE [error |-> "none",
                   pushed |-> forEachCollect(pm, deps.value, hasTransform)
                              \o collectFunc(pm, requiredPackageName, hasTransform)]
    ELSE LET order == overallOrder(ns, edges)
         IN  IF order.error # "none"
             THEN [error |-> order.error,
                   pushed |-> forEachCollect(pm, ns, hasTransform)]
             ELSE [error |-> "none",
                   pushed |-> forEachCollect(pm, order.value, hasTransform)]

\* writeToStream: [error, pushed], the error thrown (or "none") and the
\* Files pushed to targetStream.
writeToStream(ns, edges, pm, requiredPackageName, hasTransform) ==
    IF requiredPackageName # Undefined
    THEN LET deps == dependenciesOf(ns, edges, requiredPackageName)
         IN  IF deps.error # "none"
             THEN [error |-> deps.error, pushed |-> <<>>]
             ELSE [error |-> "none",
                   pushed |-> forEachCollect(pm, deps.value, hasTransform)
                              \o collectFunc(pm, requiredPackageName, hasTransform)]
    ELSE LET order == overallOrder(ns, edges)
         IN  IF order.error # "none"
             THEN [error |-> order.error, pushed |-> <<>>]
             ELSE [error |-> "none",
                   pushed |-> forEachCollect(pm, order.value, hasTransform)]

\* addPackage that keeps the File a name already has.
AddPackage_KeepsFirstFile(name) ==
    /\ pc = "collect"
    /\ ops < MaxOps
    /\ ops' = ops + 1
    /\ nodes' = addNode(nodes, name)
    /\ packageMap' = [n \in DOMAIN packageMap \cup {name} |->
                        IF n \in DOMAIN packageMap THEN packageMap[n]
                        ELSE NextFile(packageMap, name)]
    /\ thrown' = "none"
    /\ UNCHANGED <<outgoingEdges, stream, pc, cacheValue, optionVars, pipelineVars>>

\* addPackage(packageDescriptor, file)
AddPackage(name) ==
    /\ pc = "collect"
    /\ ops < MaxOps
    /\ ops' = ops + 1
    /\ nodes' = addNode(nodes, name)
    /\ packageMap' = [n \in DOMAIN packageMap \cup {name} |->
                        IF n = name THEN NextFile(packageMap, name)
                        ELSE packageMap[n]]
    /\ thrown' = "none"
    /\ UNCHANGED <<outgoingEdges, stream, pc, cacheValue, optionVars, pipelineVars>>

\* addPackageDependency without its line "addNode(packageDependencyName)":
\* addDependency throws when either name is no node.
AddPackageDependency_NoAddNode(dependant, dependency) ==
    /\ pc = "collect"
    /\ ops < MaxOps
    /\ ops' = ops + 1
    /\ nodes' = nodes
    /\ IF ~hasNode(nodes, dependant) \/ ~hasNode(nodes, dependency)
       THEN /\ thrown' = NodeDoesNotExist
            /\ UNCHANGED outgoingEdges
       ELSE /\ thrown' = "none"
            /\ outgoingEdges' =
                 IF dependency \in Range(outgoingEdges[dependant])
                 THEN outgoingEdges
                 ELSE [outgoingEdges EXCEPT ![dependant] = Append(@, dependency)]
    /\ UNCHANGED <<packageMap, stream, pc, cacheValue, optionVars, pipelineVars>>

\* addPackageDependency(packageDescriptor, packageDependencyName): addNode
\* of the dependency, then DepGraph.addDependency, which throws when the
\* dependant is no node and else records the edge if it is new.
AddPackageDependency(dependant, dependency) ==
    /\ pc = "collect"
    /\ ops < MaxOps
    /\ ops' = ops + 1
    /\ nodes' = addNode(nodes, dependency)
    /\ IF ~hasNode(nodes', dependant)
       THEN /\ thrown' = NodeDoesNotExist
            /\ UNCHANGED outgoingEdges
       ELSE /\ thrown' = "none"
            /\ outgoingEdges' =
                 IF dependency \in Range(outgoingEdges[dependant])
                 THEN outgoingEdges
                 ELSE [outgoingEdges EXCEPT ![dependant] = Append(@, dependency)]
    /\ UNCHANGED <<packageMap, stream, pc, cacheValue, optionVars, pipelineVars>>

\* The command lines a write is checked with: the logging and publishing
\* switches play no part in it.
WriteArgv == {argv \in Argv : /\ ~argv.verbose
                              /\ argv.versionBump = Undefined
                              /\ ~argv.disableExternals}

\* context.writeToStream(targetStream, transformFunc) under a command line.
WriteToStream(argv, fs, hasTransform) ==
    /\ pc = "collect"
    /\ LET cmdLine == getCmdLineWorkspacePluginOptions(cacheValue, argv, fs)
           written == writeToStream(nodes, outgoingEdges, packageMap,
                                    getPackageName(cmdLine), hasTransform)
       IN  /\ cacheValue' = <<cmdLine>>
           /\ stream' = stream \o written.pushed
           /\ thrown' = written.error
    /\ pc' = "written"
    /\ UNCHANGED <<nodes, outgoingEdges, packageMap, ops, optionVars, pipelineVars>>

\* A new PackageDependencyContext and an empty target stream.
GraphInit ==
    /\ nodes = <<>>
    /\ outgoingEdges = [n \in Names |-> <<>>]
    /\ packageMap = [n \in {} |-> Undefined]
    /\ stream = <<>>
    /\ thrown = "none"
    /\ ops = 0
    /\ pc = "collect"

\* The module NpmWorkspacePluginOptions as loaded: the defaults as written,
\* nothing cached, no binding.
OptionsInit ==
    /\ cacheValue = <<>>
    /\ heap = [ref \in {DefaultsRef} |-> DEFAULT_WORKSPACE_PLUGIN_OPTIONS]
    /\ bindings = <<>>
    /\ lastCall = [kind |-> "none", localOptions |-> EmptyObject,
                   before |-> DEFAULT_WORKSPACE_PLUGIN_OPTIONS]

\* No stream piped to the plugin.
PipelineIdle ==
    /\ emitted = <<>>
    /\ input = <<>>
    /\ processed = <<>>
    /\ calls = <<>>
    /\ raised = {}
    /\ failures = <<>>
    /\ succeeded = {}
    /\ halted = FALSE

Init == GraphInit /\ OptionsInit /\ PipelineIdle

\* The options npmUninstall() is called with in the pipeline runs.
UninstallOptions ==
    {extend(c, a) :
        c \in {EmptyObject} \cup {setProperty(EmptyObject, "continueOnError", v) :
                                       v \in BOOLEAN},
        a \in {EmptyObject} \cup {setProperty(EmptyObject, "postUninstallActions", l) :
                                       l \in PostActionLists}}

\* The streams of packages piped to the plugin: every sequence of distinct
\* packages (all of them orders in which writeToStream can push).
EmittedSequences ==
    {q \in SeqsUpTo(Names, Cardinality(Names)) :
        \A i, j \in 1..Len(q) : i # j => q[i] # q[j]}

\* npmUninstall(options) was called on the module as loaded, with nothing
\* on the command line, and a stream is piped to it.
PipelineInit ==
    /\ GraphInit
    /\ cacheValue = <<EmptyObject>>
    /\ \E options \in UninstallOptions :
          /\ heap = npmUninstallPackageBinding(
                       [ref \in {DefaultsRef} |-> DEFAULT_WORKSPACE_PLUGIN_OPTIONS],
                       options, EmptyObject)
          /\ lastCall = [kind |-> "npmUninstallPackageBinding",
                         localOptions |-> options,
                         before |-> DEFAULT_WORKSPACE_PLUGIN_OPTIONS]
    /\ bindings = <<[options |-> DefaultsRef]>>
    /\ emitted \in EmittedSequences
    /\ input = emitted
    /\ processed = <<>>
    /\ calls = <<>>
    /\ raised = {}
    /\ failures = <<>>
    /\ succeeded = {}
    /\ halted = FALSE

\* The option keys the callers set in the calls on the options, one of
\* each kind: set by the command line only, by the defaults and the command
\* line, by the defaults only, by the plugin's binding only.
LocalKeys == {"package", "verboseLogging", "enableLogging", "continueOnError"}

LocalValues(k) == IF k = "package" THEN {"a", "b"} ELSE BOOLEAN

RECURSIVE ObjectsUpTo(_)
ObjectsUpTo(n) ==
    IF n = 0 THEN {EmptyObject}
    ELSE LET smaller == ObjectsUpTo(n - 1)
         IN  smaller \cup {setProperty(o, k, v) :
                              o \in smaller, <<k, v>> \in
                                  UNION {{k} \X LocalValues(k) : k \in LocalKeys}}

\* The options objects the plugins are called with.
LocalOptions == ObjectsUpTo(MaxLocalKeys)

\* The command lines of the calls on the options: --package and --verbose.
OptionsArgv == {argv \in Argv : /\ argv.package \in {Undefined, "a", "!c"}
                                /\ argv.versionBump = Undefined
                                /\ ~argv.disableExternals}

OptionsFileSystems == {"missing", "b"}

\* The command line and file system a call may read: any while nothing is
\* cached; once the command line options are cached they are not read
\* again, and one stands for all.
Readable ==
    IF cacheValue = <<>> THEN OptionsArgv \X OptionsFileSystems
    ELSE {CHOOSE e \in OptionsArgv \X OptionsFileSystems : TRUE}

\* A call of getWorkspacePluginOptions(localOptions) by some plugin.
GetWorkspacePluginOptions(localOptions, argv, fs) ==
    /\ LET cmdLine == getCmdLineWorkspacePluginOptions(cacheValue, argv, fs)
       IN  /\ cacheValue' = <<cmdLine>>
           /\ heap' = getWorkspacePluginOptions(heap, localOptions, cmdLine)
    /\ lastCall' = [kind |-> "getWorkspacePluginOptions",
                    localOptions |-> localOptions,
                    before |-> heap[DefaultsRef]]
    /\ UNCHANGED <<graphVars, bindings, pipelineVars>>

\* A call of npmUninstall(options): packageDescriptorPlugin creates the
\* binding with npmUninstallPackageBinding(options).
NpmUninstallPackageBinding(options, argv, fs) ==
    /\ Len(bindings) < MaxBindings
    /\ LET cmdLine == getCmdLineWorkspacePluginOptions(cacheValue, argv, fs)
       IN  /\ cacheValue' = <<cmdLine>>
           /\ heap' = npmUninstallPackageBinding(heap, options, cmdLine)
    /\ bindings' = Append(bindings, [options |-> DefaultsRef])
    /\ lastCall' = [kind |-> "npmUninstallPackageBinding",
                    localOptions |-> options,
                    before |-> heap[DefaultsRef]]
    /\ UNCHANGED <<graphVars, pipelineVars>>

OptionsNext ==
    \/ \E localOptions \in LocalOptions, e \in Readable :
          GetWorkspacePluginOptions(localOptions, e[1], e[2])
    \/ \E options \in LocalOptions, e \in Readable :
          NpmUninstallPackageBinding(options, e[1], e[2])

OptionsSpec == Init /\ [][OptionsNext]_vars

PipelineNext == \E behaviour \in Behaviours : ProcessPackage(behaviour)

PipelineSpec == PipelineInit /\ [][PipelineNext]_vars

Next ==
    \/ \E name \in Names : AddPackage(name)
    \/ \E dependant, dependency \in Names :
          AddPackageDependency(dependant, dependency)
    \/ \E argv \in WriteArgv, fs \in FileSystems, hasTransform \in BOOLEAN :
          WriteToStream(argv, fs, hasTransform)

Spec == Init /\ [][Next]_vars

-----------------------------------------------------------------------------
(* Properties of the emission.                                             *)

\* The transitive closure of the dependency edges: <<a, b>> when a depends
\* on b through one or more edges.
RECURSIVE Compose(_, _, _)
Compose(R, S, k) ==
    IF k = 0 THEN S
    ELSE Compose(R, S \cup {<<x, z>> \in Names \X Names :
                               \E y \in Names : <<x, y>> \in S /\ <<y, z>> \in R},
                 k - 1)

DependsOn == Compose(Edges(outgoingEdges), Edges(outgoingEdges), Cardinality(Names))

Closure(target) == {n \in Names : <<target, n>> \in DependsOn}

Acyclic == \A n \in Names : <<n, n>> \notin DependsOn

\* The target package of the write, or Undefined in the full scope.
Target == IF cacheValue = <<>> THEN Undefined ELSE getPackageName(cacheValue[1])

OnlyNamedPackage ==
    /\ cacheValue # <<>>
    /\ "onlyNamedPackage" \in DOMAIN cacheValue[1]
    /\ cacheValue[1]["onlyNamedPackage"]

HasPayload == DOMAIN packageMap

Pushed == {stream[i].name : i \in 1..Len(stream)}

PushedOnce(n) == Cardinality({i \in 1..Len(stream) : stream[i].name = n}) = 1

Pos(n) == CHOOSE i \in 1..Len(stream) : stream[i].name = n

\* Every pushed File is the registry's File of its package (as the
\* transform returned it).
PushedAreRegistered ==
    \A i \in 1..Len(stream) :
        /\ stream[i].name \in HasPayload
        /\ [stream[i] EXCEPT !.transformed = FALSE] = packageMap[stream[i].name]

\* Dependencies are pushed before their dependants.
DependencyOrder ==
    \A e \in Edges(outgoingEdges) :
        (e[1] \in Pushed /\ e[2] \in Pushed) => Pos(e[2]) < Pos(e[1])

\* C1: full scope on an acyclic graph: writeToStream succeeds, pushes the
\* File of every package that has one exactly once, and pushes the File of
\* a dependency before the File of its dependant.
C1_FullScopeEmission ==
    (pc = "written" /\ Target = Undefined /\ Acyclic) =>
        /\ thrown = "none"
        /\ Pushed = HasPayload
        /\ \A n \in HasPayload : PushedOnce(n)
        /\ PushedAreRegistered
        /\ \A e \in Edges(outgoingEdges) :
              (e[1] \in HasPayload /\ e[2] \in HasPayload) => Pos(e[2]) < Pos(e[1])

C1_Witness ==
    /\ pc = "written" /\ Target = Undefined /\ Acyclic
    /\ Len(stream) = 3
    /\ \E a, b, c \in HasPayload :
          /\ <<a, b>> \in Edges(outgoingEdges) /\ <<b, c>> \in Edges(outgoingEdges)
          /\ Pos(a) = 3

\* C2 as claimed: closure scope on an acyclic graph, the target T being a
\* registered node: the pushed packages are exactly the transitive
\* dependencies of T and T itself, each once, every dependency before its
\* dependant, and T last.
C2_ClosureAndTargetPushed ==
    (pc = "written" /\ Target # Undefined /\ hasNode(nodes, Target) /\ Acyclic) =>
        /\ thrown = "none"
        /\ Pushed = Closure(Target) \cup {Target}
        /\ \A n \in Pushed : PushedOnce(n)
        /\ DependencyOrder
        /\ stream[Len(stream)].name = Target

\* C2 as amended: closure scope on an acyclic graph, the target T being a
\* package with a File: the pushed packages are exactly the transitive
\* dependencies of T that have a File and T itself, each once, every
\* dependency before its dependant, and T last.
C2_ClosureScopeEmission ==
    (pc = "written" /\ Target \in HasPayload /\ Acyclic) =>
        /\ thrown = "none"
        /\ Pushed = (Closure(Target) \cap HasPayload) \cup {Target}
        /\ \A n \in Pushed : PushedOnce(n)
        /\ PushedAreRegistered
        /\ DependencyOrder
        /\ stream[Len(stream)].name = Target

C2_Witness ==
    /\ pc = "written" /\ Target \in HasPayload /\ Acyclic
    /\ Len(stream) = 2
    /\ Closure(Target) \cap HasPayload # {}
    /\ HasPayload \ (Closure(Target) \cup {Target}) # {}
    /\ nodes[1] = Target

\* The names writeToStream walks: overallOrder() in the full scope,
\* dependenciesOf(T) followed by T in the closure scope.
Walked ==
    IF Target = Undefined THEN overallOrder(nodes, outgoingEdges).value
    ELSE Append(dependenciesOf(nodes, outgoingEdges, Target).value, Target)

\* C3: in both scopes a walked node without a File is skipped: the write
\* does not fail for it, nothing is pushed for it, and the Files of the
\* other walked nodes are pushed, in the order walked.
C3_SkipsNodesWithoutPayload ==
    (pc = "written" /\ (Target = Undefined \/ hasNode(nodes, Target))) =>
        /\ thrown \in {"none", DependencyCycleFound}
        /\ (thrown = "none" /\ Range(Walked) \ HasPayload # {}) =>
              /\ PushedAreRegistered
              /\ [i \in 1..Len(stream) |-> stream[i].name]
                   = SelectSeq(Walked, LAMBDA n : n \in HasPayload)
        /\ (Acyclic /\ Range(Walked) \ HasPayload # {}) => thrown = "none"

C3_Witness ==
    /\ pc = "written" /\ thrown = "none"
    /\ \E i, j \in 1..Len(Walked) :
          /\ i < j
          /\ Walked[i] \notin HasPayload
          /\ Walked[j] \in HasPayload
    /\ Len(stream) = 2

\* Some dependency cycle lies within what the target depends on (the
\* target included).
CycleReachableFrom(target) ==
    \E n \in Closure(target) \cup {target} : <<n, n>> \in DependsOn

\* C4 as claimed: whenever the graph has a self-edge or a cycle, the
\* traversal of either scope fails with the cycle error.
C4_AnyCycleFails ==
    (pc = "written" /\ ~Acyclic /\ (Target = Undefined \/ hasNode(nodes, Target)))
        => thrown = DependencyCycleFound

\* C4 as amended: the traversal fails with the cycle error, having pushed
\* nothing, exactly when the graph walked has a self-edge or a cycle: the
\* whole graph in the full scope, the target and what it depends on in the
\* closure scope.
C4_CycleInTraversalFails ==
    (pc = "written" /\ (Target = Undefined \/ hasNode(nodes, Target))) =>
        /\ (thrown = DependencyCycleFound) <=>
              IF Target = Undefined THEN ~Acyclic ELSE CycleReachableFrom(Target)
        /\ thrown = DependencyCycleFound => stream = <<>>
        /\ thrown \in {"none", DependencyCycleFound}

C4_Witness ==
    /\ pc = "written" /\ thrown = DependencyCycleFound
    /\ Target # Undefined
    /\ <<Target, Target>> \notin Edges(outgoingEdges)
    /\ HasPayload = Range(nodes)
    /\ Len(nodes) = 3

\* C10 as claimed: with a target package and onlyNamedPackage true only
\* the named package is streamed; with onlyNamedPackage false the named
\* package and its dependencies are.
C10_OnlyNamedPackage ==
    (pc = "written" /\ thrown = "none" /\ Target # Undefined) =>
        IF OnlyNamedPackage
        THEN Pushed = {Target} \cap HasPayload
        ELSE Pushed = (Closure(Target) \cup {Target}) \cap HasPayload

-----------------------------------------------------------------------------
(* Properties of the uninstall pipeline (PipelineSpec).                    *)

\* The options of the binding the stream is piped to.
PluginOptions == bindingOptions(heap, bindings[1])

ContinueOnError == PluginOptions["continueOnError"]

PostUninstallActions ==
    IF "postUninstallActions" \in DOMAIN PluginOptions
    THEN PluginOptions["postUninstallActions"] ELSE <<>>

FailedPackages == {failures[i].package : i \in 1..Len(failures)}

\* C5: with continueOnError true the run is never aborted: the packages
\* are processed in the order emitted, all of them by the end of the run,
\* one failure is recorded for each package whose action threw (exactly
\* one when one package fails), and the others succeeded.
C5_ContinueOnErrorProcessesAll ==
    (bindings # <<>> /\ ContinueOnError) =>
        /\ ~halted
        /\ processed \o input = emitted
        /\ FailedPackages = raised
        /\ Len(failures) = Cardinality(raised)
        /\ succeeded = Range(processed) \ raised
        /\ \A i \in 1..Len(failures) : failures[i].continue

C5_Witness ==
    /\ bindings # <<>> /\ ContinueOnError
    /\ input = <<>>
    /\ Len(emitted) = 3
    /\ processed = emitted
    /\ raised = {emitted[2]}
    /\ Len(failures) = 1 /\ failures[1].package = emitted[2]
    /\ succeeded = {emitted[1], emitted[3]}

\* C6: with continueOnError false the first package whose action throws
\* is the last package processed: the run is aborted, that failure is the
\* only one recorded, every package before it succeeded and no package
\* after it is handed to the plugin.
C6_HaltsAtFirstFailure ==
    (bindings # <<>> /\ ~ContinueOnError) =>
        /\ processed \o input = emitted
        /\ (raised # {}) <=> halted
        /\ halted =>
              /\ Len(failures) = 1
              /\ failures[1].package = processed[Len(processed)]
              /\ raised = {processed[Len(processed)]}
              /\ succeeded = Range(processed) \ raised
        /\ ~halted => (failures = <<>> /\ succeeded = Range(processed))

C6_Witness ==
    /\ bindings # <<>> /\ ~ContinueOnError
    /\ halted
    /\ Len(emitted) = 3
    /\ Len(processed) = 2
    /\ Len(input) = 1
    /\ Len(PostUninstallActions) > 0

\* The calls of the last package processed.
PrimarySucceeded == calls # <<>> /\ calls[1] = Call("rimraf.sync", 0, "ok")

Invoked(i) == \E j \in 1..Len(calls) : calls[j].kind = "action" /\ calls[j].index = i

Evaluated(i, r) == \E j \in 1..Len(calls) : calls[j] = Call("condition", i, r)

\* No call of an earlier post-action, and not the condition of this one,
\* threw: the forEach got to the i-th post-action and past its condition.
Reached(i) ==
    \A j \in 1..Len(calls) :
        (calls[j].result = "throw" /\ calls[j].index >= 1) =>
            (calls[j].index > i \/ (calls[j].index = i /\ calls[j].kind = "action"))

\* C7 as claimed: for a package whose primary action succeeded, the action
\* of a post-action is invoked if and only if its predicate is absent or
\* evaluated true.
C7_InvokedIffPredicateAllows ==
    (bindings # <<>> /\ PrimarySucceeded) =>
        \A i \in 1..Len(PostUninstallActions) :
            Invoked(i) <=> (~PostUninstallActions[i].hasCondition \/ Evaluated(i, "true"))

\* C7 as amended: for a package whose primary action succeeded, the action
\* of a post-action is invoked if and only if no earlier post-action of
\* that package failed and its predicate is absent or evaluated true; one
\* whose predicate evaluated false is not invoked, and the post-action
\* after it is still evaluated.
C7_InvokedIffReachedAndAllowed ==
    (bindings # <<>> /\ PrimarySucceeded) =>
        \A i \in 1..Len(PostUninstallActions) :
            LET postAction == PostUninstallActions[i]
            IN  /\ Invoked(i) <=>
                      /\ Reached(i)
                      /\ ~postAction.hasCondition \/ Evaluated(i, "true")
                /\ Evaluated(i, "false") => ~Invoked(i)
                /\ (Evaluated(i, "false") /\ i < Len(PostUninstallActions)) =>
                      IF PostUninstallActions[i + 1].hasCondition
                      THEN \E r \in {"true", "false", "throw"} : Evaluated(i + 1, r)
                      ELSE Invoked(i + 1)

C7_Witness ==
    /\ bindings # <<>> /\ PrimarySucceeded
    /\ Len(PostUninstallActions) = 2
    /\ Evaluated(1, "false") /\ ~Invoked(1)
    /\ Evaluated(2, "true") /\ Invoked(2)
    /\ processed # <<>> /\ processed[Len(processed)] \in succeeded

-----------------------------------------------------------------------------
(* Properties of the options (OptionsSpec).                                *)

\* The options of the binding created last.
NewestOptions == bindingOptions(heap, bindings[Len(bindings)])

CommandLine == cacheValue[1]

\* The defaults of the uninstall plugin: the workspace defaults and
\* continueOnError true.
UninstallDefaults ==
    setProperty(DEFAULT_WORKSPACE_PLUGIN_OPTIONS, "continueOnError", TRUE)

\* C8 as claimed: the options of a binding just created take each key from
\* the command line if it is set there, else from the caller's options if
\* set there, else from the defaults.
C8_CommandLineOverLocalOverDefaults ==
    (lastCall.kind = "npmUninstallPackageBinding") =>
        NewestOptions = extend(extend(UninstallDefaults, lastCall.localOptions),
                               CommandLine)

-----------------------------------------------------------------------------
(* Properties of the registrations (Spec).                                 *)

\* The endpoints of every edge are nodes.
EndpointsAreNodes ==
    \A e \in Edges(outgoingEdges) : hasNode(nodes, e[1]) /\ hasNode(nodes, e[2])

C12_ReAddReplacesPayloadOnly ==
    [][\A name \in Names :
          (AddPackage(name) /\ hasNode(nodes, name)) =>
              /\ thrown' = "none"
              /\ nodes' = nodes
              /\ outgoingEdges' = outgoingEdges
              /\ DOMAIN packageMap' = DOMAIN packageMap \cup {name}
              /\ packageMap'[name] = NextFile(packageMap, name)
              /\ name \in DOMAIN packageMap => packageMap'[name] # packageMap[name]
              /\ \A n \in DOMAIN packageMap \ {name} :
                    packageMap'[n] = packageMap[n]]_vars

\* A package with edges in both directions was added again, and a node
\* first registered as a dependency was added as a package afterwards.
C12_Witness ==
    /\ pc = "collect" /\ thrown = "none"
    /\ \E name, other \in HasPayload :
          /\ name # other
          /\ packageMap[name].rev = 2
          /\ <<name, other>> \in Edges(outgoingEdges)
          /\ <<other, name>> \in Edges(outgoingEdges)
          /\ nodes = <<name, other>>

-----------------------------------------------------------------------------
(* Further properties of the uninstall pipeline (PipelineSpec).            *)

\* The i-th post-action was started for the last package processed: its
\* condition was called or, having none, its action was.
Started(i) == \E j \in 1..Len(calls) : calls[j].index = i

\* The calls were made in list order: the primary action first and once,
\* then the post-actions by ascending index, the condition of a post-action
\* before its action, and nothing after a call that threw.
InListOrder ==
    /\ calls[1].kind = "rimraf.sync"
    /\ \A j \in 2..Len(calls) :
          /\ calls[j].kind # "rimraf.sync"
          /\ calls[j - 1].result # "throw"
          /\ calls[j - 1].index <= calls[j].index
          /\ calls[j - 1].index = calls[j].index =>
                (calls[j - 1].kind = "condition" /\ calls[j].kind = "action")

\* C13 as claimed: when the primary action of a package succeeded, or
\* failed with continueOnError true, its configured post-actions are
\* started, in list order and after the primary action.
C13_PostActionsAfterNonFatalFailure ==
    (processed # <<>> /\ (PrimarySucceeded \/ ContinueOnError)) =>
        /\ InListOrder
        /\ Len(PostUninstallActions) > 0 => Started(1)

\* C13 as amended: the primary action of a package is called first; when
\* it succeeded the post-actions are started in list order, each one that
\* no failure of an earlier one precedes; when it failed no post-action is
\* started, whatever continueOnError is.
C13_PostActionsAfterSuccessOnly ==
    processed # <<>> =>
        /\ InListOrder
        /\ \A i \in 1..Len(PostUninstallActions) :
              Started(i) <=>
                  /\ PrimarySucceeded
                  /\ \A j \in 1..Len(calls) :
                        calls[j].result = "throw" => calls[j].index >= i
        /\ \A j \in 1..Len(calls) : calls[j].index <= Len(PostUninstallActions)
        /\ ~PrimarySucceeded => Len(calls) = 1

\* After a package whose primary action failed with continueOnError true,
\* the next package's primary action succeeded and its two post-actions
\* were run in order.
C13_Witness ==
    /\ Len(processed) = 2 /\ ContinueOnError
    /\ raised = {processed[1]}
    /\ PrimarySucceeded
    /\ Len(PostUninstallActions) = 2
    /\ Len(calls) = 4
    /\ calls[2] = Call("condition", 1, "true") /\ calls[3] = Call("action", 1, "ok")
    /\ calls[4] = Call("action", 2, "ok")

\* The last package processed and whether one of its calls threw.
LastProcessed == processed[Len(processed)]

LastThrew == \E j \in 1..Len(calls) : calls[j].result = "throw"

StepCompleted ==
    \/ LastThrew
    \/ /\ PrimarySucceeded
       /\ \A i \in 1..Len(PostUninstallActions) : Started(i)
       /\ \A i \in 1..Len(PostUninstallActions) :
             (~PostUninstallActions[i].hasCondition \/ Evaluated(i, "true"))
                 => Invoked(i)

\* C15: the packages are handed to the plugin one at a time in the order
\* emitted, none skipped and none twice; whenever the next package can
\* begin, the step of the one before is over; a package is processed only
\* after every package emitted before it (its dependencies among them).
C15_OneAtATimeInEmissionOrder ==
    /\ Len(processed) <= Len(emitted)
    /\ \A i \in 1..Len(processed) : processed[i] = emitted[i]
    /\ input = SubSeq(emitted, Len(processed) + 1, Len(emitted))
    /\ processed # <<>> => (InListOrder /\ StepCompleted)
    /\ \A i, j \in 1..Len(emitted) :
          (i < j /\ emitted[j] \in Range(processed)) =>
              /\ emitted[i] \in Range(processed)
              /\ emitted[i] \in succeeded \cup raised
    /\ succeeded \cup raised = Range(processed)
    /\ succeeded \cap raised = {}

\* Two of three packages are processed, the first with a failure the run
\* went on after, the second through both of its post-actions, and the
\* third is still to come.
C15_Witness ==
    /\ Len(emitted) = 3 /\ Len(processed) = 2 /\ Len(input) = 1
    /\ ~halted
    /\ processed[1] \in raised /\ processed[2] \in succeeded
    /\ Len(PostUninstallActions) = 2
    /\ Invoked(1) /\ Invoked(2)
    /\ ~PostUninstallActions[1].hasCondition
    /\ PostUninstallActions[2].hasCondition

-----------------------------------------------------------------------------
(* Further properties of the emission (Spec).                              *)

\* The names of the Files pushed, in order.
PushedNames == [i \in 1..Len(stream) |-> stream[i].name]

\* The order the claimed tie-break gives the names walked: the whole graph
\* in the full scope, the dependencies of the target and then the target in
\* the closure scope.
TieBrokenByRegistration ==
    IF Target = Undefined
    THEN RegistrationOrder(nodes, outgoingEdges, Range(nodes), <<>>)
    ELSE Append(RegistrationOrder(nodes, outgoingEdges, Closure(Target), <<>>),
                Target)

Starts ==
    IF Target = Undefined
    THEN SelectSeq(nodes, LAMBDA n : ~hasIncoming(outgoingEdges, n))
    ELSE outgoingEdges[Target]

\* The first start that is n or depends on n.
Group(n) ==
    CHOOSE i \in 1..Len(Starts) :
        /\ Starts[i] = n \/ <<Starts[i], n>> \in DependsOn
        /\ \A k \in 1..(i - 1) : Starts[k] # n /\ <<Starts[k], n>> \notin DependsOn

C17_StructuralFailureBeforeEmission ==
    [][(pc = "collect" /\ pc' = "written") =>
          /\ (Target' # Undefined /\ ~hasNode(nodes, Target')) =>
                thrown' = NodeDoesNotExist
          /\ thrown' \in {"none", NodeDoesNotExist, DependencyCycleFound}
          /\ thrown' = NodeDoesNotExist =>
                (Target' # Undefined /\ ~hasNode(nodes, Target'))
          /\ thrown' # "none" => stream' = stream
          /\ nodes' = nodes
          /\ outgoingEdges' = outgoingEdges
          /\ packageMap' = packageMap]_vars

\* A write for a target that was never registered has failed, nothing
\* pushed, on a graph of packages with Files and an edge.
C17_Witness ==
    /\ pc = "written" /\ thrown = NodeDoesNotExist
    /\ Target \in Names \ Range(nodes)
    /\ Cardinality(HasPayload) = 2
    /\ Edges(outgoingEdges) # {}
    /\ stream = <<>>

-----------------------------------------------------------------------------
(* Further properties of the options (OptionsSpec).                        *)

\* C18 as claimed: the object a call of getWorkspacePluginOptions returns
\* is made of the defaults as the module wrote them, the local options of
\* that call and the command line, whatever calls were made before; a key
\* only an earlier call supplied is not in it.
C18_CallsAreIndependent ==
    (lastCall.kind = "getWorkspacePluginOptions") =>
        heap[DefaultsRef] =
            extend(extend(DEFAULT_WORKSPACE_PLUGIN_OPTIONS, lastCall.localOptions),
                   CommandLine)

\* C19 as claimed: no call changes the value of an option of a binding
\* created before it.
C19_BindingOptionsAreStable ==
    [][\A i \in 1..Len(bindings) :
          bindingOptions(heap', bindings[i]) = bindingOptions(heap, bindings[i])]_vars

=============================================================================
